---- MODULE Spec2Model ----
(***************************************************************************)
(* Model of rust-triangle (src/src/main.rs): a GLFW window, one shader     *)
(* program, one static triangle, and the event/render loop.                *)
(*                                                                         *)
(* The program is one thread; `pc` is its position in main().  Each block  *)
(* of main() is one action.  The OpenGL context is modelled by the object  *)
(* store and bindings the calls of main() read and write.  The platform    *)
(* (window creation, driver compile/link status, the input a poll          *)
(* processes) is the environment: its answers are drawn from small sets.   *)
(* A poll queues only the kinds of event whose polling main() enabled (key *)
(* events); a close request sets the should-close flag inside the poll.    *)
(*                                                                         *)
(* Floating-point literals are written in hundredths (0.5 is 50).          *)
(***************************************************************************)
EXTENDS Integers, Sequences, FiniteSets

(* ---------------------------- bounds ----------------------------------- *)

\* Largest number of platform inputs one poll_events call processes.
MaxBatch == 2

\* The counters of what happened after a close request saturate here.
CountCap == 2

(* ------------------------ program constants ---------------------------- *)

WINDOW_WIDTH == 1280
WINDOW_HEIGHT == 640
WINDOW_TITLE == "GLFW Triangle"

\* Capacity of the scratch buffer handed to GetShaderInfoLog/GetProgramInfoLog.
InfoLogBufSize == 1024

\* let vertices: [f32; 9], in hundredths.
vertices == <<-50, -50, 0, 50, -50, 0, 0, 50, 0>>

\* The Color passed to gl_clear_color, in hundredths.
ClearColorValue == [r |-> 12, g |-> 12, b |-> 12, a |-> 100]

(* --------------------------- environment ------------------------------- *)

\* Framebuffer sizes window.get_framebuffer_size() may report: the requested
\* size, or twice that on a high-DPI display.
FramebufferSizes ==
    {<<WINDOW_WIDTH, WINDOW_HEIGHT>>, <<2 * WINDOW_WIDTH, 2 * WINDOW_HEIGHT>>}

\* Lengths of the info log the driver holds for a failed compile or link.
LogLens == {0, 17, InfoLogBufSize - 1, InfoLogBufSize, InfoLogBufSize + 476}

\* Platform inputs, as the glfw::WindowEvent each would be reported as.
\* Fields a kind does not carry are "-" / 0.
CloseEvent == [kind |-> "Close", key |-> "-", scancode |-> 0, action |-> "-", mods |-> 0]
FocusEvent == [kind |-> "Focus", key |-> "-", scancode |-> 0, action |-> "-", mods |-> 0]

KeyEvent(k, sc, a, m) ==
    [kind |-> "Key", key |-> k, scancode |-> sc, action |-> a, mods |-> m]

\* Modifier bit sets: none, Shift (0x1).
Mods == {0, 1}
\* Platform scancodes a Q key event may carry.
QScancodes == {24, 16}

QPressEvents == {KeyEvent("Q", sc, "Press", m) : sc \in QScancodes, m \in Mods}
QOtherEvents == {KeyEvent("Q", 24, "Release", 0), KeyEvent("Q", 24, "Repeat", 1)}
OtherKeyEvents == {KeyEvent("W", 25, "Press", 0)}

WindowEvents ==
    {CloseEvent, FocusEvent} \cup QPressEvents \cup QOtherEvents \cup OtherKeyEvents

RECURSIVE SeqsUpTo(_, _)
SeqsUpTo(S, n) ==
    IF n = 0 THEN {<<>>}
    ELSE LET shorter == SeqsUpTo(S, n - 1)
         IN  shorter \cup {Append(s, e) : s \in {t \in shorter : Len(t) = n - 1}, e \in S}

\* What the platform may have pending when poll_events is called.
Batches == SeqsUpTo(WindowEvents, MaxBatch)

(* ------------------------------ state ---------------------------------- *)

VARIABLES
    pc,                   \* position in main()
    exit_code,            \* -1 while running, 0 on return from main, 101 on panic
    diag,                 \* panic message and the length of the log text in it
    window,               \* the glfw::Window: exists, current, key_polling, fb_size
    should_close,         \* the window's should-close flag
    events,               \* the event receiver's queue
    viewport,             \* gl viewport
    clear_color,          \* gl clear colour
    vertex_shader,        \* handles held by main(), 0 before creation
    fragment_shader,
    shader_program,
    gl_objects,           \* shader/program object store of the context
    delete_calls,         \* DeleteShader calls made, per name
    gl_error,             \* the context's error flag
    vao,                  \* handles held by main(), 0 before creation
    vbo,
    vao_state,            \* the vertex array object
    vbo_state,            \* the buffer object
    creates,              \* number of creations of program / vertex array / buffer
    current_program,      \* bindings of the context
    vertex_array_binding,
    array_buffer_binding,
    back_buffer,          \* what the back buffer holds
    front_buffer,         \* what is presented
    calls,                \* calls made by the current loop iteration, in order
    polled,               \* what the current iteration's poll_events put in the queue
    handled,              \* events dispatched so far by the current `for` loop
    frames,               \* swap_buffers calls made so far (saturating)
    stdout_last,          \* the last line written to stdout
    after_close           \* what ran after the first close was taken in: by the
                          \* poll as a request, or by the handler as an event

shaderVars == <<vertex_shader, fragment_shader, shader_program, gl_objects,
                delete_calls, gl_error>>
meshVars == <<vao, vbo, vao_state, vbo_state>>
bindVars == <<current_program, vertex_array_binding, array_buffer_binding>>
ctxVars == <<window, viewport, clear_color>>
frameVars == <<back_buffer, front_buffer, frames>>
exitVars == <<exit_code, diag>>

vars == <<pc, exit_code, diag, window, should_close, events, viewport, clear_color,
          vertex_shader, fragment_shader, shader_program, gl_objects, delete_calls,
          gl_error, vao, vbo, vao_state, vbo_state, creates, current_program,
          vertex_array_binding, array_buffer_binding, back_buffer, front_buffer,
          calls, polled, handled, frames, stdout_last, after_close>>

(* ------------------------- the GL object store -------------------------- *)

\* Names of the shared shader/program name space.
Names == 1 .. 3

FreeObject ==
    [kind |-> "free", stage |-> "-", status |-> "-", log_len |-> 0,
     attached |-> {}, delete_flag |-> FALSE]

\* The name glCreateShader / glCreateProgram returns: the lowest unused one.
FreshName(objs) ==
    CHOOSE n \in Names : objs[n].kind = "free" /\ \A m \in Names : m < n => objs[m].kind # "free"

\* glCreateShader + glShaderSource + glCompileShader on name n.
CompiledShader(objs, n, stage, ok, loglen) ==
    [objs EXCEPT ![n] = [kind |-> "shader", stage |-> stage,
                         status |-> IF ok THEN "compiled" ELSE "failed",
                         log_len |-> IF ok THEN 0 ELSE loglen,
                         attached |-> {}, delete_flag |-> FALSE]]

\* glCreateProgram + glAttachShader x2 + glLinkProgram on name p.
LinkedProgram(objs, p, vs, fs, ok, loglen) ==
    [objs EXCEPT ![p] = [kind |-> "program", stage |-> "-",
                         status |-> IF ok THEN "linked" ELSE "failed",
                         log_len |-> IF ok THEN 0 ELSE loglen,
                         attached |-> {vs, fs}, delete_flag |-> FALSE]]

IsAttached(objs, s) == \E p \in Names : objs[p].kind = "program" /\ s \in objs[p].attached

\* glDetachShader(p, s): a shader flagged for deletion is deleted once detached.
DetachShader(objs, p, s) ==
    LET o1 == [objs EXCEPT ![p].attached = @ \ {s}]
    IN  IF o1[s].kind = "shader" /\ o1[s].delete_flag /\ ~IsAttached(o1, s)
        THEN [o1 EXCEPT ![s] = FreeObject]
        ELSE o1

\* glDeleteShader(s): frees s, or flags it while it is attached; a name that is
\* no shader object leaves the store alone and raises GL_INVALID_VALUE.
DeleteShader(objs, s) ==
    IF objs[s].kind # "shader" THEN objs
    ELSE IF IsAttached(objs, s) THEN [objs EXCEPT ![s].delete_flag = TRUE]
    ELSE [objs EXCEPT ![s] = FreeObject]

DeleteShaderError(objs, s, err) ==
    IF objs[s].kind # "shader" /\ err = "NO_ERROR" THEN "INVALID_VALUE" ELSE err

\* glGetShaderInfoLog / glGetProgramInfoLog with bufSize: the characters
\* written, not counting the terminator.
InfoLogWritten(loglen, bufSize) ==
    IF loglen < bufSize - 1 THEN loglen ELSE bufSize - 1

(* ------------------------------ Init ----------------------------------- *)

NoDiag == [msg |-> "", log_len |-> 0]
NoAttrib == [size |-> 0, type |-> "-", normalized |-> FALSE, stride |-> 0,
             offset |-> 0, buffer |-> 0]
\* A colour buffer whose content is undefined (never cleared, or just swapped).
Undefined == [defined |-> FALSE, bg |-> [r |-> 0, g |-> 0, b |-> 0, a |-> 0],
              triangle |-> FALSE]
NoEvent == [kind |-> "-", key |-> "-", scancode |-> 0, action |-> "-", mods |-> 0]

\* The state before main() has done anything, but for pc, flag and queue.
InitRest ==
    /\ exit_code = -1
    /\ diag = NoDiag
    /\ window = [exists |-> FALSE, current |-> FALSE, key_polling |-> FALSE,
                 fb_size |-> <<0, 0>>]
    /\ viewport = <<0, 0, 0, 0>>
    /\ clear_color = [r |-> 0, g |-> 0, b |-> 0, a |-> 0]
    /\ vertex_shader = 0
    /\ fragment_shader = 0
    /\ shader_program = 0
    /\ gl_objects = [n \in Names |-> FreeObject]
    /\ delete_calls = [n \in Names |-> 0]
    /\ gl_error = "NO_ERROR"
    /\ vao = 0
    /\ vbo = 0
    /\ vao_state = [exists |-> FALSE, attrib0 |-> NoAttrib, enabled0 |-> FALSE]
    /\ vbo_state = [exists |-> FALSE, data |-> <<>>, usage |-> "-"]
    /\ creates = [program |-> 0, vertex_array |-> 0, buffer |-> 0]
    /\ current_program = 0
    /\ vertex_array_binding = 0
    /\ array_buffer_binding = 0
    /\ back_buffer = Undefined
    /\ front_buffer = Undefined
    /\ calls = <<>>
    /\ polled = <<>>
    /\ handled = <<>>
    /\ frames = 0
    /\ stdout_last = [line |-> "-", event |-> NoEvent]
    /\ after_close = [seen |-> FALSE, polls |-> 0, clears |-> 0, draws |-> 0, swaps |-> 0]

Init ==
    /\ pc = "glfw_init"
    /\ should_close = FALSE
    /\ events = <<>>
    /\ InitRest

\* A panic: the message goes to stderr and the process ends with code 101.
Panic(msg, loglen) ==
    /\ pc' = "aborted"
    /\ exit_code' = 101
    /\ diag' = [msg |-> msg, log_len |-> loglen]

(* --------------------------- setup of main() --------------------------- *)

\* glfw::init(fail_on_errors!()).unwrap()
GlfwInit ==
    /\ pc = "glfw_init"
    /\ \/ /\ pc' = "create_window"
          /\ UNCHANGED exitVars
       \/ Panic("called Result::unwrap() on an Err value", 0)
    /\ UNCHANGED <<ctxVars, should_close, events, shaderVars, meshVars, creates,
                   bindVars, frameVars, calls, polled, handled, stdout_last, after_close>>

\* glfw.create_window(..).expect(..) and window.get_framebuffer_size()
CreateWindow ==
    /\ pc = "create_window"
    /\ \/ \E size \in FramebufferSizes :
            /\ window' = [window EXCEPT !.exists = TRUE, !.fb_size = size]
            /\ pc' = "setup_context"
            /\ UNCHANGED exitVars
       \/ /\ Panic("Failed to create GLFW window.", 0)
          /\ UNCHANGED window
    /\ UNCHANGED <<viewport, clear_color, should_close, events, shaderVars, meshVars,
                   creates, bindVars, frameVars, calls, polled, handled, stdout_last, after_close>>

\* make_current, set_key_polling(true), gl::load_with, gl::Viewport, gl_clear_color
SetupContext ==
    /\ pc = "setup_context"
    /\ window' = [window EXCEPT !.current = TRUE, !.key_polling = TRUE]
    /\ viewport' = <<0, 0, window.fb_size[1], window.fb_size[2]>>
    /\ clear_color' = ClearColorValue
    /\ pc' = "vertex_shader"
    /\ UNCHANGED <<exitVars, should_close, events, shaderVars, meshVars, creates,
                   bindVars, frameVars, calls, polled, handled, stdout_last, after_close>>

\* The vertex shader block: create, source, compile, check COMPILE_STATUS.
CompileVertexShader ==
    /\ pc = "vertex_shader"
    /\ LET n == FreshName(gl_objects)
       IN  /\ vertex_shader' = n
           /\ \/ /\ gl_objects' = CompiledShader(gl_objects, n, "VERTEX", TRUE, 0)
                 /\ pc' = "fragment_shader"
                 /\ UNCHANGED exitVars
              \/ \E loglen \in LogLens :
                    /\ gl_objects' = CompiledShader(gl_objects, n, "VERTEX", FALSE, loglen)
                    /\ Panic("Vertex Shared Compile Error: ",
                             InfoLogWritten(loglen, InfoLogBufSize))
    /\ UNCHANGED <<ctxVars, should_close, events, fragment_shader, shader_program,
                   delete_calls, gl_error, meshVars, creates, bindVars, frameVars,
                   calls, polled, handled, stdout_last, after_close>>

\* The fragment shader block without the COMPILE_STATUS check.
CompileFragmentShader_IgnoreStatus ==
    /\ pc = "fragment_shader"
    /\ LET n == FreshName(gl_objects)
       IN  /\ fragment_shader' = n
           /\ \E ok \in BOOLEAN, loglen \in LogLens :
                 gl_objects' = CompiledShader(gl_objects, n, "FRAGMENT", ok, loglen)
           /\ pc' = "link_program"
    /\ UNCHANGED <<exitVars, ctxVars, should_close, events, vertex_shader, shader_program,
                   delete_calls, gl_error, meshVars, creates, bindVars, frameVars,
                   calls, polled, handled, stdout_last, after_close>>

\* The fragment shader block: create, source, compile, check COMPILE_STATUS.
CompileFragmentShader ==
    /\ pc = "fragment_shader"
    /\ LET n == FreshName(gl_objects)
       IN  /\ fragment_shader' = n
           /\ \/ /\ gl_objects' = CompiledShader(gl_objects, n, "FRAGMENT", TRUE, 0)
                 /\ pc' = "link_program"
                 /\ UNCHANGED exitVars
              \/ \E loglen \in LogLens :
                    /\ gl_objects' = CompiledShader(gl_objects, n, "FRAGMENT", FALSE, loglen)
                    /\ Panic("Fragment Shader Compile Error: ",
                             InfoLogWritten(loglen, InfoLogBufSize))
    /\ UNCHANGED <<ctxVars, should_close, events, vertex_shader, shader_program,
                   delete_calls, gl_error, meshVars, creates, bindVars, frameVars,
                   calls, polled, handled, stdout_last, after_close>>

\* CreateProgram, AttachShader x2, LinkProgram, check LINK_STATUS.
LinkProgram ==
    /\ pc = "link_program"
    /\ LET p == FreshName(gl_objects)
       IN  /\ shader_program' = p
           /\ creates' = [creates EXCEPT !.program = @ + 1]
           /\ \/ /\ gl_objects' = LinkedProgram(gl_objects, p, vertex_shader,
                                                fragment_shader, TRUE, 0)
                 /\ pc' = "release_shaders"
                 /\ UNCHANGED exitVars
              \/ \E loglen \in LogLens :
                    /\ gl_objects' = LinkedProgram(gl_objects, p, vertex_shader,
                                                   fragment_shader, FALSE, loglen)
                    /\ Panic("Program Link Error: ",
                             InfoLogWritten(loglen, InfoLogBufSize))
    /\ UNCHANGED <<ctxVars, should_close, events, vertex_shader, fragment_shader,
                   delete_calls, gl_error, meshVars, bindVars, frameVars,
                   calls, polled, handled, stdout_last, after_close>>

\* DetachShader(vertex), DetachShader(fragment), DeleteShader(vertex),
\* DeleteShader(vertex): the four calls as main() makes them.
ReleaseShaders ==
    /\ pc = "release_shaders"
    /\ LET o1 == DetachShader(gl_objects, shader_program, vertex_shader)
           o2 == DetachShader(o1, shader_program, fragment_shader)
           o3 == DeleteShader(o2, vertex_shader)
           e3 == DeleteShaderError(o2, vertex_shader, gl_error)
           o4 == DeleteShader(o3, vertex_shader)
           e4 == DeleteShaderError(o3, vertex_shader, e3)
       IN  /\ gl_objects' = o4
           /\ gl_error' = e4
           /\ delete_calls' = [delete_calls EXCEPT ![vertex_shader] = @ + 2]
    /\ pc' = "upload_vertices"
    /\ UNCHANGED <<exitVars, ctxVars, should_close, events, vertex_shader,
                   fragment_shader, shader_program, meshVars, creates, bindVars,
                   frameVars, calls, polled, handled, stdout_last, after_close>>

\* size_of::<f32>()
SizeOfF32 == 4

\* The vertex setup without EnableVertexAttribArray(0).
UploadVertices_NoEnable ==
    /\ pc = "upload_vertices"
    /\ vao' = 1
    /\ vbo' = 1
    /\ creates' = [creates EXCEPT !.vertex_array = @ + 1, !.buffer = @ + 1]
    /\ vbo_state' = [exists |-> TRUE, data |-> vertices, usage |-> "STATIC_DRAW"]
    /\ vao_state' = [exists |-> TRUE,
                     attrib0 |-> [size |-> 3, type |-> "FLOAT", normalized |-> FALSE,
                                  stride |-> 3 * SizeOfF32, offset |-> 0, buffer |-> 1],
                     enabled0 |-> FALSE]
    /\ array_buffer_binding' = 0
    /\ vertex_array_binding' = 0
    /\ pc' = "print_versions"
    /\ UNCHANGED <<exitVars, ctxVars, should_close, events, shaderVars, current_program,
                   frameVars, calls, polled, handled, stdout_last, after_close>>

\* GenVertexArrays, GenBuffers, BindVertexArray, BindBuffer, BufferData,
\* VertexAttribPointer, EnableVertexAttribArray, then both unbinds.
UploadVertices ==
    /\ pc = "upload_vertices"
    /\ LET a == 1      \* the first vertex array name
           b == 1      \* the first buffer name
           bound_vao == a
           bound_buf == b
       IN  /\ vao' = a
           /\ vbo' = b
           /\ creates' = [creates EXCEPT !.vertex_array = @ + 1, !.buffer = @ + 1]
           /\ vbo_state' = [exists |-> TRUE, data |-> vertices, usage |-> "STATIC_DRAW"]
           /\ vao_state' = [exists |-> TRUE,
                            attrib0 |-> [size |-> 3, type |-> "FLOAT",
                                         normalized |-> FALSE,
                                         stride |-> 3 * SizeOfF32, offset |-> 0,
                                         buffer |-> bound_buf],
                            enabled0 |-> TRUE]
           /\ array_buffer_binding' = 0
           /\ vertex_array_binding' = 0
    /\ pc' = "print_versions"
    /\ UNCHANGED <<exitVars, ctxVars, should_close, events, shaderVars, current_program,
                   frameVars, calls, polled, handled, stdout_last, after_close>>

\* The two println! of gl_get_string(..).
PrintVersions ==
    /\ pc = "print_versions"
    /\ stdout_last' = [line |-> "GLSL version", event |-> NoEvent]
    /\ pc' = "loop_check"
    /\ UNCHANGED <<exitVars, ctxVars, should_close, events, shaderVars, meshVars,
                   creates, bindVars, frameVars, calls, polled, handled, after_close>>

(* ---------------------------- event handler ---------------------------- *)

\* Variants of the handler's match, each a slip the claims below must detect.
\* The Close arm is missing.
glfw_handle_event_NoClose(flag, event) ==
    IF event.kind = "Key" /\ event.key = "Q" /\ event.action = "Press" THEN TRUE
    ELSE flag

\* Every arm does nothing.
glfw_handle_event_Ignore(flag, event) == flag

\* The key arm matches any key.
glfw_handle_event_AnyKeyPress(flag, event) ==
    IF event.kind = "Close" THEN TRUE
    ELSE IF event.kind = "Key" /\ event.action = "Press" THEN TRUE
    ELSE flag

\* The key arm matches any action of Q.
glfw_handle_event_AnyQAction(flag, event) ==
    IF event.kind = "Close" THEN TRUE
    ELSE IF event.kind = "Key" /\ event.key = "Q" THEN TRUE
    ELSE flag

\* The default arm clears the flag.
glfw_handle_event_Reset(flag, event) ==
    IF event.kind = "Close" THEN TRUE
    ELSE IF event.kind = "Key" /\ event.key = "Q" /\ event.action = "Press" THEN TRUE
    ELSE FALSE

\* glfw_handle_event: the should-close flag after the match on the event.
glfw_handle_event(flag, event) ==
    IF event.kind = "Close" THEN TRUE
    ELSE IF event.kind = "Key" /\ event.key = "Q" /\ event.action = "Press" THEN TRUE
    ELSE flag

(* ------------------------------ the loop ------------------------------- *)

Call(name, arg) == [call |-> name, arg |-> arg]

Bump(n) == IF n < CountCap THEN n + 1 ELSE n

\* Counts one more `what` after a Close event was dispatched.
Count(what) ==
    IF after_close.seen THEN [after_close EXCEPT ![what] = Bump(@)] ELSE after_close

\* The loop condition without the negation.
LoopCheck_Inverted ==
    /\ pc = "loop_check"
    /\ IF should_close
       THEN /\ pc' = "poll_events"
            /\ calls' = <<>>
            /\ polled' = <<>>
            /\ handled' = <<>>
            /\ UNCHANGED exit_code
       ELSE /\ pc' = "exited"
            /\ exit_code' = 0
            /\ UNCHANGED <<calls, polled, handled>>
    /\ UNCHANGED <<diag, ctxVars, should_close, events, shaderVars, meshVars, creates,
                   bindVars, frameVars, stdout_last, after_close>>

\* A loop that never reads the flag.
LoopCheck_IgnoresFlag ==
    /\ pc = "loop_check"
    /\ pc' = "poll_events"
    /\ calls' = <<>>
    /\ polled' = <<>>
    /\ handled' = <<>>
    /\ UNCHANGED <<exitVars, ctxVars, should_close, events, shaderVars, meshVars, creates,
                   bindVars, frameVars, stdout_last, after_close>>

\* while !window.should_close(); falling out of the loop returns from main.
\* A new iteration starts with an empty record of calls and events.
LoopCheck ==
    /\ pc = "loop_check"
    /\ IF ~should_close
       THEN /\ pc' = "poll_events"
            /\ calls' = <<>>
            /\ polled' = <<>>
            /\ handled' = <<>>
            /\ UNCHANGED exit_code
       ELSE /\ pc' = "exited"
            /\ exit_code' = 0
            /\ UNCHANGED <<calls, polled, handled>>
    /\ UNCHANGED <<diag, ctxVars, should_close, events, shaderVars, meshVars, creates,
                   bindVars, frameVars, stdout_last, after_close>>

\* Whether the window reports an input of this kind to the receiver: only
\* key polling is ever enabled (window.set_key_polling(true)).
IsDelivered(e) == e.kind = "Key" /\ window.key_polling

\* Whether the input holds a close request.
HasClose(input) == \E i \in 1 .. Len(input) : input[i].kind = "Close"

\* glfw.poll_events(): the platform processes what is pending.  A close
\* request sets the window's should-close flag; the inputs whose polling is
\* enabled are queued for the receiver, in order.
PollEvents ==
    /\ pc = "poll_events"
    /\ \E input \in Batches :
          /\ events' = events \o SelectSeq(input, IsDelivered)
          /\ polled' = SelectSeq(input, IsDelivered)
          /\ should_close' = (should_close \/ HasClose(input))
          /\ after_close' = [Count("polls") EXCEPT !.seen = @ \/ HasClose(input)]
    /\ calls' = Append(calls, Call("poll_events", 0))
    /\ UNCHANGED handled
    /\ pc' = "flush_messages"
    /\ UNCHANGED <<exitVars, ctxVars, shaderVars, meshVars, creates,
                   bindVars, frameVars, stdout_last>>

\* One turn of `for (_, event) in glfw::flush_messages(&events)`.
HandleEvent ==
    /\ pc = "flush_messages"
    /\ events # <<>>
    /\ LET event == Head(events)
       IN  /\ stdout_last' = [line |-> "event", event |-> event]
           /\ should_close' = glfw_handle_event(should_close, event)
           /\ handled' = Append(handled, event)
           /\ after_close' = [after_close EXCEPT !.seen = @ \/ event.kind = "Close"]
    /\ events' = Tail(events)
    /\ calls' = Append(calls, Call("handle_event", 0))
    /\ pc' = "flush_messages"
    /\ UNCHANGED <<exitVars, ctxVars, shaderVars, meshVars, creates, bindVars, frameVars,
                   polled>>

\* The clear issued without waiting for the queue to drain.
Clear_BeforeDrain ==
    /\ pc = "flush_messages"
    /\ back_buffer' = [defined |-> TRUE, bg |-> clear_color, triangle |-> FALSE]
    /\ calls' = Append(calls, Call("clear", 0))
    /\ after_close' = Count("clears")
    /\ pc' = "use_program"
    /\ UNCHANGED <<exitVars, ctxVars, should_close, events, shaderVars, meshVars,
                   creates, bindVars, front_buffer, frames, polled, handled, stdout_last>>

\* The queue is drained; gl::Clear(COLOR_BUFFER_BIT).
Clear ==
    /\ pc = "flush_messages"
    /\ events = <<>>
    /\ back_buffer' = [defined |-> TRUE, bg |-> clear_color, triangle |-> FALSE]
    /\ calls' = Append(calls, Call("clear", 0))
    /\ after_close' = Count("clears")
    /\ pc' = "use_program"
    /\ UNCHANGED <<exitVars, ctxVars, should_close, events, shaderVars, meshVars,
                   creates, bindVars, front_buffer, frames, polled, handled, stdout_last>>

\* gl::UseProgram(shader_program)
UseProgram ==
    /\ pc = "use_program"
    /\ current_program' = shader_program
    /\ calls' = Append(calls, Call("use_program", shader_program))
    /\ pc' = "bind_vertex_array"
    /\ UNCHANGED <<exitVars, ctxVars, should_close, events, shaderVars, meshVars,
                   creates, vertex_array_binding, array_buffer_binding, frameVars,
                   polled, handled, stdout_last, after_close>>

\* gl::BindVertexArray(vao)
BindVertexArray ==
    /\ pc = "bind_vertex_array"
    /\ vertex_array_binding' = vao
    /\ calls' = Append(calls, Call("bind_vertex_array", vao))
    /\ pc' = "draw_arrays"
    /\ UNCHANGED <<exitVars, ctxVars, should_close, events, shaderVars, meshVars,
                   creates, current_program, array_buffer_binding, frameVars,
                   polled, handled, stdout_last, after_close>>

\* Whether a draw of `count` vertices from `first` has a linked program in use
\* and an enabled attribute 0 backed by enough uploaded floats.
DrawReady(first, count) ==
    /\ current_program \in Names
    /\ gl_objects[current_program].kind = "program"
    /\ gl_objects[current_program].status = "linked"
    /\ vertex_array_binding # 0
    /\ vertex_array_binding = vao
    /\ vao_state.exists
    /\ vao_state.enabled0
    /\ vao_state.attrib0.buffer # 0
    /\ vao_state.attrib0.buffer = vbo
    /\ vbo_state.exists
    /\ Len(vbo_state.data) >= (first + count) * vao_state.attrib0.size

\* gl::DrawArrays(gl::TRIANGLES, 0, 3)
DrawArrays ==
    /\ pc = "draw_arrays"
    /\ back_buffer' = [back_buffer EXCEPT !.triangle = @ \/ DrawReady(0, 3)]
    /\ calls' = Append(calls, Call("draw_arrays", 3))
    /\ after_close' = Count("draws")
    /\ pc' = "unbind_vertex_array"
    /\ UNCHANGED <<exitVars, ctxVars, should_close, events, shaderVars, meshVars,
                   creates, bindVars, front_buffer, frames, polled, handled, stdout_last>>

\* gl::BindVertexArray(0)
UnbindVertexArray ==
    /\ pc = "unbind_vertex_array"
    /\ vertex_array_binding' = 0
    /\ calls' = Append(calls, Call("bind_vertex_array", 0))
    /\ pc' = "swap_buffers"
    /\ UNCHANGED <<exitVars, ctxVars, should_close, events, shaderVars, meshVars,
                   creates, current_program, array_buffer_binding, frameVars,
                   polled, handled, stdout_last, after_close>>

\* window.swap_buffers(): the back buffer is presented.
SwapBuffers ==
    /\ pc = "swap_buffers"
    /\ front_buffer' = back_buffer
    /\ frames' = Bump(frames)
    /\ back_buffer' = Undefined
    /\ calls' = Append(calls, Call("swap_buffers", 0))
    /\ after_close' = Count("swaps")
    /\ pc' = "loop_check"
    /\ UNCHANGED <<exitVars, ctxVars, should_close, events, shaderVars, meshVars,
                   creates, bindVars, polled, handled, stdout_last>>

(* --------------------------- specification ----------------------------- *)

Next ==
    \/ GlfwInit
    \/ CreateWindow
    \/ SetupContext
    \/ CompileVertexShader
    \/ CompileFragmentShader
    \/ LinkProgram
    \/ ReleaseShaders
    \/ UploadVertices
    \/ PrintVersions
    \/ LoopCheck
    \/ PollEvents
    \/ HandleEvent
    \/ Clear
    \/ UseProgram
    \/ BindVertexArray
    \/ DrawArrays
    \/ UnbindVertexArray
    \/ SwapBuffers

Spec == Init /\ [][Next]_vars

\* main() is sequential code on one thread: whatever step is next is taken.
FairSpec == Spec /\ WF_vars(Next)

(* ---------------------- the handler on its own ------------------------- *)

\* glfw_handle_event is a pub fn over every glfw::WindowEvent.  Here it is
\* called directly, as a caller outside main() may: on a window whose flag
\* has either value, with each event of a list of arbitrary kinds in turn.
HandlerInit ==
    /\ pc = "handler_call"
    /\ should_close \in BOOLEAN
    /\ events \in SeqsUpTo(WindowEvents, MaxBatch + 1) \ {<<>>}
    /\ InitRest

\* One call glfw_handle_event(&mut window, event).
HandlerCall ==
    /\ pc = "handler_call"
    /\ events # <<>>
    /\ LET event == Head(events)
       IN  /\ stdout_last' = [line |-> "event", event |-> event]
           /\ should_close' = glfw_handle_event(should_close, event)
           /\ handled' = Append(handled, event)
    /\ events' = Tail(events)
    /\ UNCHANGED <<pc, exitVars, ctxVars, shaderVars, meshVars, creates, bindVars,
                   frameVars, calls, polled, after_close>>

HandlerSpec == HandlerInit /\ [][HandlerCall]_vars

\* The handler under both of its callers: a behaviour is either a run of
\* main() or a series of direct calls.
CallersInit ==
    \/ Init
    \/ HandlerInit

CallersNext ==
    \/ Next
    \/ HandlerCall

CallersSpec == CallersInit /\ [][CallersNext]_vars

(* ------------------------------ claims --------------------------------- *)

LoopPcs == {"loop_check", "poll_events", "flush_messages", "use_program",
            "bind_vertex_array", "draw_arrays", "unbind_vertex_array", "swap_buffers"}

IsQPress(e) == e.kind = "Key" /\ e.key = "Q" /\ e.action = "Press"
IsQuitEvent(e) == e.kind = "Close" \/ IsQPress(e)

\* An event is being dispatched by the step that leaves this state.
Dispatching == pc \in {"flush_messages", "handler_call"} /\ events # <<>>

\* The calls of one iteration that dispatches n events.
IterationCalls(n) ==
    <<Call("poll_events", 0)>> \o [i \in 1 .. n |-> Call("handle_event", 0)] \o
    <<Call("clear", 0), Call("use_program", shader_program),
      Call("bind_vertex_array", vao), Call("draw_arrays", 3),
      Call("bind_vertex_array", 0), Call("swap_buffers", 0)>>

\* C1: a Close event given to the handler leaves the flag true; and once the
\* flag is true in the render loop, the program is still in the iteration in
\* which it was set (one poll, at most one clear, one draw and one swap, in
\* the order of an iteration) and never back at the poll: the loop exits
\* when that iteration ends.
C1_CloseExitsWithinIteration ==
    /\ (\E i \in 1 .. Len(handled) : handled[i].kind = "Close") => should_close
    /\ (should_close /\ pc \in LoopPcs \cup {"exited"}) =>
          /\ pc # "poll_events"
          /\ calls # <<>>
          /\ calls = SubSeq(IterationCalls(Len(handled)), 1, Len(calls))
          /\ pc \in {"loop_check", "exited"} => calls = IterationCalls(Len(handled))

C1_Witness ==
    /\ pc = "handler_call"
    /\ handled = <<KeyEvent("Q", 24, "Release", 0), CloseEvent>>
    /\ events = <<FocusEvent>>
    /\ should_close

\* C2: dispatching a Q key press sets the flag; dispatching an event that is
\* neither a close request nor a Q press leaves the flag as it was and leaves
\* the shader program, the vertex array, the buffer and the bindings alone.
C2_OnlyQuitEventsSetFlag ==
    [][Dispatching =>
          /\ IsQPress(Head(events)) => should_close'
          /\ ~IsQuitEvent(Head(events)) =>
                /\ should_close' = should_close
                /\ UNCHANGED <<shaderVars, meshVars, bindVars, creates>>]_vars

C2_Witness ==
    /\ pc = "handler_call"
    /\ Len(handled) = 3
    /\ handled[1] = FocusEvent
    /\ handled[2] = KeyEvent("W", 25, "Press", 0)
    /\ IsQPress(handled[3])
    /\ should_close

\* The panic message of each build stage.
StageMessage(obj) ==
    IF obj.kind = "program" THEN "Program Link Error: "
    ELSE IF obj.stage = "VERTEX" THEN "Vertex Shared Compile Error: "
    ELSE "Fragment Shader Compile Error: "

\* C3: when a shader compile or the link reports failure the process has
\* aborted with that stage's message and the log text the driver returned
\* (at most InfoLogBufSize - 1 characters of it); no poll, clear, draw or swap
\* has happened and no later setup step has run.
C3_FailedBuildAbortsBeforeLoop ==
    \A n \in Names :
        gl_objects[n].status = "failed" =>
            /\ pc = "aborted"
            /\ exit_code = 101
            /\ diag.msg = StageMessage(gl_objects[n])
            /\ diag.log_len = IF gl_objects[n].log_len <= InfoLogBufSize - 1
                              THEN gl_objects[n].log_len
                              ELSE InfoLogBufSize - 1
            /\ calls = <<>> /\ frames = 0
            /\ back_buffer = Undefined /\ front_buffer = Undefined
            /\ vao = 0 /\ vbo = 0 /\ ~vao_state.exists /\ ~vbo_state.exists
            /\ creates.vertex_array = 0 /\ creates.buffer = 0
            /\ \A m \in Names : delete_calls[m] = 0
            /\ \A m \in Names : m > n => gl_objects[m].kind = "free"
            /\ gl_objects[n].kind = "shader" => shader_program = 0
            /\ gl_objects[n].stage = "VERTEX" => fragment_shader = 0

C3_Witness ==
    /\ pc = "aborted"
    /\ fragment_shader # 0
    /\ gl_objects[fragment_shader].status = "failed"
    /\ gl_objects[fragment_shader].log_len = 17
    /\ diag = [msg |-> "Fragment Shader Compile Error: ", log_len |-> 17]

\* C4: once the shaders have been released, both stage objects are gone, the
\* program has nothing attached, and each of the two handles was deleted
\* exactly once.
C4_BothStagesDeletedOnce ==
    pc \in LoopPcs \cup {"upload_vertices", "print_versions", "exited"} =>
        /\ gl_objects[vertex_shader].kind = "free"
        /\ gl_objects[fragment_shader].kind = "free"
        /\ gl_objects[shader_program].attached = {}
        /\ delete_calls[vertex_shader] = 1
        /\ delete_calls[fragment_shader] = 1
        /\ gl_error = "NO_ERROR"

\* The program, the vertex array and the buffer exist and are set up.
ObjectsSetUp ==
    /\ shader_program \in Names
    /\ gl_objects[shader_program].kind = "program"
    /\ gl_objects[shader_program].status = "linked"
    /\ vao # 0 /\ vao_state.exists
    /\ vbo # 0 /\ vbo_state.exists
    /\ vbo_state.data = <<-50, -50, 0, 50, -50, 0, 0, 50, 0>>
    /\ vbo_state.usage = "STATIC_DRAW"
    /\ vao_state.enabled0
    /\ vao_state.attrib0 = [size |-> 3, type |-> "FLOAT", normalized |-> FALSE,
                            stride |-> 12, offset |-> 0, buffer |-> vbo]

\* C5: nothing is created more than once; throughout the render loop the
\* program, the vertex array and the buffer have each been created exactly
\* once and are set up, and at the draw call they are the ones in use.
C5_ObjectsCreatedOnceAndOutliveDraws ==
    /\ creates.program <= 1 /\ creates.vertex_array <= 1 /\ creates.buffer <= 1
    /\ pc \in LoopPcs \cup {"exited"} =>
          /\ creates = [program |-> 1, vertex_array |-> 1, buffer |-> 1]
          /\ ObjectsSetUp
    /\ pc = "draw_arrays" =>
          /\ current_program = shader_program
          /\ vertex_array_binding = vao
    /\ (pc \in LoopPcs \cup {"exited"} /\ frames > 0) => front_buffer.triangle

C5_Witness ==
    /\ pc = "draw_arrays"
    /\ frames = 2
    /\ front_buffer.triangle

\* C6: the calls of an iteration are, in this order, the poll, one dispatch
\* per polled event in queue order, clear, use program, bind vertex array,
\* one draw of 3 vertices, unbind, swap; nothing is cleared while an event is
\* still queued.
C6_IterationOrder ==
    pc \in LoopPcs \cup {"exited"} =>
        /\ calls = SubSeq(IterationCalls(Len(handled)), 1, Len(calls))
        /\ calls # <<>> => handled \o events = polled
        /\ (pc \notin {"poll_events", "flush_messages"} /\ calls # <<>>) =>
              events = <<>> /\ handled = polled
        /\ (pc \in {"loop_check", "exited"} /\ calls # <<>>) =>
              calls = IterationCalls(Len(polled))

C6_Witness ==
    /\ pc = "loop_check"
    /\ Len(polled) = 2
    /\ polled[1] # polled[2]
    /\ handled = polled
    /\ Len(calls) = 9

\* The loop is left only from its condition check with the flag true, and
\* with the flag false the check goes on to the next poll.
LoopLeftOnlyOnFlag ==
    /\ (pc \in LoopPcs /\ pc' \notin LoopPcs) =>
          pc = "loop_check" /\ should_close /\ pc' = "exited"
    /\ (pc = "loop_check" /\ ~should_close) => pc' = "poll_events"

\* C7 as stated: the flag changes only when the handler is given a close
\* request or a Q press; the loop is left only from its condition check with
\* the flag true; with the flag false the check goes on to the next poll.
C7_OnlyHandlerSetsFlag ==
    [][/\ should_close' # should_close => Dispatching /\ IsQuitEvent(Head(events))
       /\ LoopLeftOnlyOnFlag]_vars

\* C7 as amended: the flag changes only when the handler is given a Q press
\* (or a Close event) or when poll_events runs (the platform taking in a
\* close request); the loop is left only from its condition check with the
\* flag true; with the flag false the check goes on to the next poll.
C7_CooperativeTermination ==
    [][/\ should_close' # should_close =>
             \/ Dispatching /\ IsQuitEvent(Head(events))
             \/ pc = "poll_events" /\ after_close'.seen
       /\ LoopLeftOnlyOnFlag]_vars

C7_Witness ==
    /\ pc = "exited"
    /\ should_close
    /\ frames = 2
    /\ polled = <<KeyEvent("Q", 24, "Release", 0)>>
    /\ handled = polled

\* A close request has been taken in, or a Q press is waiting in the queue
\* of the running loop.
QuitPending ==
    /\ pc \in LoopPcs
    /\ \/ should_close
       \/ \E i \in 1 .. Len(events) : IsQuitEvent(events[i])

\* C8: the program ends by returning from main (exit code 0, no panic
\* message) whenever it leaves the loop, and a close request taken in or a
\* Q press that reaches the queue leads to that exit.
C8_QuitLeadsToNormalExit ==
    /\ [](pc = "exited" => exit_code = 0 /\ diag = NoDiag)
    /\ [](pc \in LoopPcs => exit_code = -1 /\ diag = NoDiag)
    /\ QuitPending ~> (pc = "exited" /\ exit_code = 0)

C8_Witness ==
    /\ pc = "exited"
    /\ exit_code = 0
    /\ diag = NoDiag
    /\ after_close.seen
    /\ polled = <<>>
    /\ frames = 1

\* C9: no step turns the flag from true to false, and with the flag already
\* true the remaining events of the batch are still dispatched one by one.
C9_FlagMonotonic ==
    [][should_close =>
          /\ should_close'
          /\ Dispatching =>
                /\ pc' = "flush_messages"
                /\ events' = Tail(events)
                /\ handled' = Append(handled, Head(events))]_vars

C9_Witness ==
    /\ pc = "flush_messages"
    /\ Len(handled) = 2
    /\ IsQuitEvent(handled[1])
    /\ ~IsQuitEvent(handled[2])
    /\ should_close

\* C10: a Q key event with action Release or Repeat leaves the flag as it
\* was; a Q Press sets it whatever the scancode and the modifiers.
C10_OnlyQPressQuits ==
    [][(Dispatching /\ Head(events).kind = "Key" /\ Head(events).key = "Q") =>
          IF Head(events).action = "Press"
          THEN should_close'
          ELSE should_close' = should_close]_vars

C10_Witness ==
    /\ pc = "flush_messages"
    /\ Len(handled) = 2
    /\ handled[1] = KeyEvent("Q", 24, "Repeat", 1)
    /\ handled[2] = KeyEvent("Q", 16, "Press", 1)
    /\ should_close
    /\ ~after_close.seen

====
